---- MODULE Spec2Model ----
(***************************************************************************)
(* A model of the three terminal simulators of fancy-screensavers: the     *)
(* market simulator (app/crypto_sim) and the LLM and segmentation training *)
(* simulators (app/training_sim).                                          *)
(*                                                                         *)
(* Numbers.  The program computes with floats; the model computes with     *)
(* integers in fixed units and rounds to the nearest unit (DivR):          *)
(*   prices, snapshot volume    dollars                                    *)
(*   current_volume             hundreds of dollars                        *)
(*   market_cap                 millions of dollars                        *)
(*   price_change_24h           hundredths of a percent  (-1.5  is -150)   *)
(*   volatility                 1/10000                  (0.02  is  200)   *)
(*   dominance                  tenths of a percent      (45.0  is  450)   *)
(*   per-tick rates             per mille                (0.2   is  200)   *)
(*   rsi                        hundredths               (95    is 9500)   *)
(*   macd                       hundredths               (20    is 2000)   *)
(*   funding                    1/100000                 (0.2   is 20000)  *)
(*   probabilities, draws of random.random()   percent   (0.05  is    5)   *)
(*   train_loss, dice_score, best_metric       1/10000   (0.51  is 5100)   *)
(*   progress                   1/1000                                     *)
(*   tokens                     hundredths of tokens_per_step              *)
(*   clock, elapsed             half seconds                               *)
(*                                                                         *)
(* Specifications.                                                         *)
(*   Spec           a whole run of one simulator, with a user cancellation *)
(*                  (KeyboardInterrupt) arriving at any point              *)
(*   RunSpec        the same run under the fairness that every statement   *)
(*                  that can run does run and every sleep ends             *)
(*   PriceSpec      the price process: generate_market_metrics and the     *)
(*                  update of price, volume, high and low, applied tick    *)
(*                  after tick to a snapshot                               *)
(*   IndicatorSpec  generate_indicators and format_indicators applied to   *)
(*                  a snapshot and a volume                                *)
(*   EventSpec      simulate_market_event applied to a snapshot            *)
(*   DriftSpec      the price process from 42000 over 100 ticks with all   *)
(*                  four cycle draws at their midpoint                     *)
(*   TickSpec       the market loop statement by statement, its calls      *)
(*                  made with the declared parameters, with the time its   *)
(*                  sleeps take and a cancellation arriving at any point   *)
(***************************************************************************)
EXTENDS Integers, Sequences, FiniteSets, TLC

VARIABLES
    sim,            \* which simulator runs: "market", "llm" or "seg"
    pc,             \* the position of the run
    raised,         \* the exception that ended the run, or "none"
    signalled,      \* a user cancellation has been delivered
    response,       \* what the live fetch of get_market_data meets
    market_data,    \* the snapshot record returned by get_market_data
    initial_price, current_price, current_volume, high_price, low_price,
    price_change,   \* the locals of MarketSimulator.run
    ticks,          \* loop iterations completed
    indicators,     \* the record generate_indicators returned last
    event,          \* the event or issue being shown, or NoEvent
    epoch, step, tokens_seen,   \* the locals of the training loops
    bound,          \* the names of the training loop's locals bound so far
    draw,           \* the tick's draw of random.random(), percent; -1: none
    advances,       \* state advances performed
    renders,        \* per-tick status lines printed
    summaries,      \* terminal summaries printed
    metrics,        \* the record generate_metrics returned last
    best_metric,    \* self.best_metric, in 1/10000
    config,         \* self.config and the sizes __init__ derives from it
    clock,          \* half seconds since start_time was taken
    elapsed,        \* the market loop's local `elapsed`, half seconds
    details,        \* the values of int(elapsed) the detailed summary was
                    \* printed at, in order
    checkpoints,    \* checkpoint saves performed
    insights,       \* the gate draws and the selection of the insights
                    \* printed in this tick
    last_progress,  \* the progress passed to generate_metrics last, 1/1000
    total_tokens_seen   \* the LLM loop's local

vars ==
    <<sim, pc, raised, signalled, response, market_data, initial_price,
      current_price, current_volume, high_price, low_price, price_change,
      ticks, indicators, event, epoch, step, tokens_seen, bound, draw,
      advances, renders, summaries, metrics, best_metric, config, clock,
      elapsed, details, checkpoints, insights, last_progress,
      total_tokens_seen>>

marketVars ==
    <<initial_price, current_price, current_volume, high_price, low_price,
      price_change, ticks>>

loopVars ==
    <<clock, elapsed, details, checkpoints, insights, last_progress,
      total_tokens_seen>>

trainVars ==
    <<epoch, step, tokens_seen, bound, draw, advances, renders, summaries,
      metrics, best_metric, config, loopVars>>

(***************************************************************************)
(* Arithmetic helpers.                                                     *)
(***************************************************************************)
Abs(x) == IF x < 0 THEN -x ELSE x

Max(a, b) == IF a >= b THEN a ELSE b

Min(a, b) == IF a <= b THEN a ELSE b

\* a / b rounded to the nearest integer (b # 0): the model's float division
DivR(a, b) ==
    IF b > 0 THEN (2 * a + b) \div (2 * b)
             ELSE (2 * (-a) + (-b)) \div (2 * (-b))

(***************************************************************************)
(* MarketData.get_market_data (app/crypto_sim/market_data.py).             *)
(***************************************************************************)
\* the eight values the function reads out of the reply's 'market_data'
Fields ==
    {"current_price", "total_volume", "high_24h", "low_24h",
     "price_change_percentage_24h", "market_cap", "ath", "atl"}

\* figures a live reply may carry: near the all-time high, near the all-time
\* low, a young coin whose high and low are close together, a coin that
\* tripled within the day, a coin nobody traded within the day
LiveSamples ==
    { [current_price |-> 66000, total_volume |-> 4800000, high_24h |-> 67000,
       low_24h |-> 64000, price_change_percentage_24h |-> 500,
       market_cap |-> 1300000, ath |-> 69000, atl |-> 3000],
      [current_price |-> 3300, total_volume |-> 2400000, high_24h |-> 4100,
       low_24h |-> 3200, price_change_percentage_24h |-> -2000,
       market_cap |-> 65000, ath |-> 69000, atl |-> 3000],
      [current_price |-> 9600, total_volume |-> 240000, high_24h |-> 9800,
       low_24h |-> 9300, price_change_percentage_24h |-> 200,
       market_cap |-> 9600, ath |-> 10000, atl |-> 9000],
      [current_price |-> 30000, total_volume |-> 1200000, high_24h |-> 32000,
       low_24h |-> 9500, price_change_percentage_24h |-> 20000,
       market_cap |-> 30000, ath |-> 32000, atl |-> 2000],
      [current_price |-> 5000, total_volume |-> 0, high_24h |-> 5000,
       low_24h |-> 5000, price_change_percentage_24h |-> 0,
       market_cap |-> 5000, ath |-> 40000, atl |-> 4000] }

\* a reply in which at most one of the eight values is absent or null
Replies ==
    { [kind |-> "json", has_market_data |-> TRUE, figures |-> l,
       broken |-> f, how |-> h] :
         l \in LiveSamples, f \in Fields, h \in {"ok", "missing", "null"} }

\* what requests.get and response.json() can meet
Responses ==
    { [kind |-> "network_error"], [kind |-> "not_json"] }
      \cup { [kind |-> "json", has_market_data |-> FALSE, figures |-> l] :
                 l \in LiveSamples }
      \cup Replies

StaleFallbackRecord ==
    [price |-> 40000, volume |-> 5000000, high_24h |-> 43000,
     low_24h |-> 41000, price_change_24h |-> -150, market_cap |-> 800000,
     ath |-> 69000, atl |-> 3000, volatility |-> 200]

\* the except branch: the built-in record
FallbackRecord ==
    [price |-> 42000, volume |-> 5000000, high_24h |-> 43000,
     low_24h |-> 41000, price_change_24h |-> -150, market_cap |-> 800000,
     ath |-> 69000, atl |-> 3000, volatility |-> 200, dominance |-> 450]

\* the try branch raises: the request fails, the body is no JSON, a key is
\* absent (KeyError), or float() is handed None (TypeError)
FetchRaises(r) ==
    \/ r.kind \in {"network_error", "not_json"}
    \/ r.kind = "json" /\ ~r.has_market_data
    \/ r.kind = "json" /\ r.has_market_data /\ r.how = "missing"
    \/ r.kind = "json" /\ r.has_market_data /\ r.how = "null"
          /\ r.broken # "price_change_percentage_24h"

\* the try branch's record; a null 24h change reads as 0
LiveRecord(r) ==
    LET change == IF r.how = "null" /\ r.broken = "price_change_percentage_24h"
                  THEN 0
                  ELSE r.figures.price_change_percentage_24h
    IN  [price |-> r.figures.current_price,
         volume |-> r.figures.total_volume,
         high_24h |-> r.figures.high_24h,
         low_24h |-> r.figures.low_24h,
         price_change_24h |-> change,
         market_cap |-> r.figures.market_cap,
         ath |-> r.figures.ath,
         atl |-> r.figures.atl,
         volatility |-> Abs(change),
         dominance |-> 450]

get_market_data(r) == IF FetchRaises(r) THEN FallbackRecord ELSE LiveRecord(r)

\* the replies the price process, the indicators and the events are run on:
\* the offline case and every intact live reply
IntactResponses ==
    { r \in Responses : r.kind = "network_error"
                           \/ (r.kind = "json" /\ ~FetchRaises(r)
                                  /\ r.how = "ok" /\ r.broken = "atl") }

NoData == [price |-> 0]

(***************************************************************************)
(* TechnicalIndicators.generate_market_metrics                             *)
(* (app/crypto_sim/indicators.py) and the state update of                  *)
(* MarketSimulator.run (app/crypto_sim/simulator.py).                      *)
(***************************************************************************)
\* ticks a run of the price process is followed for
MaxTicks == 3

\* the largest |price_change| (per mille) the price process is followed
\* through: keeps the model's integers in range
RateCap == 5000

\* the draws of one call the model follows.  The four cycles
\* (random.uniform(-0.2, 0.2), (-0.15, 0.15), (-0.1, 0.1), (-0.05, 0.05)) are
\* taken together at their lower extremes, midpoints or upper extremes; the
\* two Gaussian terms at two standard deviations (random.gauss(0,
\* actual_volatility)) and at one (random.gauss(0, 0.1), per mille)
CycleLevels == {-1, 0, 1}

GaussDraws == {-2, 2}

VolumeDraws == {-100, 100}

MetricDraws ==
    { [gauss |-> g, long |-> 200 * c, medium |-> 150 * c, short |-> 100 * c,
       micro |-> 50 * c, volume |-> v] :
         c \in CycleLevels, g \in GaussDraws, v \in VolumeDraws }

\* run(): initial_volume = volume / 24, in hundreds of dollars
InitialVolume(md) == DivR(md.volume, 2400)

\* run(): base_volatility = volatility / (24 * 60) ** 0.5, in 1/10000
BaseVolatility(md) == DivR(md.volatility * 1000, 37947)

\* trend = price_change_24h / 100 / 86400, per mille
Trend(md) == DivR(md.price_change_24h, 864000)

\* ath_influence = -0.1 * (ath - current_price) / ath, per mille
AthInfluence(price, md) == DivR(-100 * (md.ath - price), md.ath)

\* atl_influence = 0.1 * (current_price - atl) / current_price, per mille
AtlInfluence(price, md) == DivR(100 * (price - md.atl), price)

\* actual_volatility = base_volatility * (1 + |price_change_24h| / 100)
ActualVolatility(base_volatility, md) ==
    DivR(base_volatility * (10000 + Abs(md.price_change_24h)), 10000)

\* the divisions of generate_market_metrics: by ath and by current_price
MetricsRaises(price, md) == md.ath = 0 \/ price = 0

\* generate_market_metrics(base_volatility, current_price, market_data):
\* <<price_change, volume_change>>, per mille
generate_market_metrics(d, base_volatility, price, md) ==
    LET change == DivR(d.gauss * ActualVolatility(base_volatility, md), 10)
                    + Trend(md)
                    + d.long + d.medium + d.short + d.micro
                    + AthInfluence(price, md) + AtlInfluence(price, md)
        volume_multiplier == 1000 + 5 * Abs(change)
    IN  <<change, DivR(d.volume * volume_multiplier, 1000)>>

\* current_price *= (1 + price_change); current_volume *= (1 + volume_change)
Scaled(value, change) == DivR(value * (1000 + change), 1000)

\* high_price overwritten by the price instead of the maximum
NextHighOverwritten(high, price) == price

\* high_price = max(high_price, current_price)
NextHigh(high, price) == Max(high, price)

\* low_price = min(low_price, current_price)
NextLow(low, price) == Min(low, price)

NoIndicators == [rsi |-> 0]

NoEvent == [level |-> "none"]

NoConfig == [max_epochs |-> 0]

NoMetrics == [none |-> 0]

\* no insights have been printed
NoInsights == [gates |-> <<>>, selected |-> <<>>]

\* float('inf'), above every metric
Infinity == 1000000000

\* the training loops have not run
TrainIdle ==
    /\ epoch = 0
    /\ step = 0
    /\ tokens_seen = 0
    /\ bound = {}
    /\ draw = -1
    /\ advances = 0
    /\ renders = 0
    /\ summaries = 0
    /\ metrics = NoMetrics
    /\ best_metric = Infinity
    /\ clock = 0
    /\ elapsed = 0
    /\ details = <<>>
    /\ checkpoints = 0
    /\ insights = NoInsights
    /\ last_progress = -1
    /\ total_tokens_seen = 0

\* run(), lines 76-88: the locals after the snapshot is fetched
MarketLocals(md) ==
    /\ market_data = md
    /\ initial_price = md.price
    /\ current_price = md.price
    /\ current_volume = InitialVolume(md)
    /\ high_price = md.price
    /\ low_price = md.price
    /\ price_change = 0
    /\ ticks = 0

\* run(), lines 97-104, with the draws d
Advance(d) ==
    LET m == generate_market_metrics(d, BaseVolatility(market_data),
                                     current_price, market_data)
        price == Scaled(current_price, m[1])
    IN  /\ Abs(m[1]) <= RateCap
        /\ price_change' = m[1]
        /\ current_price' = price
        /\ current_volume' = Scaled(current_volume, m[2])
        /\ high_price' = NextHigh(high_price, price)
        /\ low_price' = NextLow(low_price, price)

(***************************************************************************)
(* PriceSpec: the price process on its own.                                *)
(***************************************************************************)
PriceInit ==
    /\ sim = "market"
    /\ pc = "price"
    /\ raised = "none"
    /\ signalled = FALSE
    /\ response \in IntactResponses
    /\ MarketLocals(get_market_data(response))
    /\ indicators = NoIndicators
    /\ event = NoEvent
    /\ TrainIdle
    /\ config = NoConfig

\* one tick of the process; a price of exactly 0 makes atl_influence divide by
\* zero
PriceTick ==
    /\ pc = "price"
    /\ ticks < MaxTicks
    /\ IF MetricsRaises(current_price, market_data)
       THEN /\ raised' = "ZeroDivisionError"
            /\ pc' = "crashed"
            /\ UNCHANGED marketVars
       ELSE /\ \E d \in MetricDraws : Advance(d)
            /\ ticks' = ticks + 1
            /\ UNCHANGED <<pc, raised, initial_price>>
    /\ UNCHANGED <<sim, signalled, response, market_data, indicators, event>>
    /\ UNCHANGED trainVars

PriceNext == PriceTick

PriceSpec == PriceInit /\ [][PriceNext]_vars

(***************************************************************************)
(* TechnicalIndicators.generate_indicators (app/crypto_sim/indicators.py)  *)
(* and DisplayUtils.format_indicators (app/crypto_sim/display.py).         *)
(***************************************************************************)
\* the noise draws of one call: random.uniform(-10, 10) in hundredths,
\* (-20, 20) in hundredths, (0.8, 1.2) in percent, (-0.05, 0.05) in 1/100000,
\* (-0.3, 0.3) in percent, (0.4, 1.6) in percent
IndicatorDraws ==
    [rsi : {-1000, 0, 1000}, macd : {-2000, 2000}, obv : {80, 120},
     funding : {-5000, 0, 5000}, cvd : {-30, 30}, oi : {40, 160}]

\* price_momentum = price_change_24h / 100, in 1/10000
PriceMomentum(md) == md.price_change_24h

\* the upper clamp left out: max(50 + price_momentum * 200 + noise, 5)
RsiNoUpperClamp(noise, md) == Max(5000 + 2 * PriceMomentum(md) + noise, 500)

\* 'rsi': max(min(50 + price_momentum * 200 + noise, 95), 5)
Rsi(noise, md) == Max(Min(5000 + 2 * PriceMomentum(md) + noise, 9500), 500)

\* 'macd': price_momentum * 100 + noise
Macd(noise, md) == PriceMomentum(md) + noise

\* 'funding': price_momentum * 0.1 + noise
Funding(noise, md) == PriceMomentum(md) + noise

\* volume * (offset + price_momentum) * factor, offset in 1/10000 and factor
\* in percent: 'obv' (offset 1), 'cvd' (offset 0), 'oi' (offset 1.5)
VolumeIndicator(volume, offset, factor, md) ==
    DivR(DivR(volume * (offset + PriceMomentum(md)), 10000) * factor, 100)

\* vol_ratio = volume / (market_data['volume'] / 24) divides by the snapshot
\* volume
IndicatorsRaise(md) == md.volume = 0

\* generate_indicators(volume, market_data)
generate_indicators(d, volume, md) ==
    [rsi |-> Rsi(d.rsi, md),
     macd |-> Macd(d.macd, md),
     obv |-> VolumeIndicator(volume, 10000, d.obv, md),
     funding |-> Funding(d.funding, md),
     cvd |-> VolumeIndicator(volume, 0, d.cvd, md),
     oi |-> VolumeIndicator(volume, 15000, d.oi, md)]

\* format_indicators divides by 2 * obv and by obv
FormatRaises(ind) == ind.obv = 0

(***************************************************************************)
(* IndicatorSpec: the indicators of a snapshot at its initial volume.      *)
(***************************************************************************)
IndicatorInit ==
    /\ sim = "market"
    /\ pc = "derive"
    /\ raised = "none"
    /\ signalled = FALSE
    /\ response \in IntactResponses
    /\ MarketLocals(get_market_data(response))
    /\ indicators = NoIndicators
    /\ event = NoEvent
    /\ TrainIdle
    /\ config = NoConfig

\* run(), lines 115-116
Derive ==
    /\ pc = "derive"
    /\ IF IndicatorsRaise(market_data)
       THEN /\ raised' = "ZeroDivisionError"
            /\ pc' = "crashed"
            /\ UNCHANGED indicators
       ELSE \E d \in IndicatorDraws :
              LET ind == generate_indicators(d, current_volume, market_data)
              IN  /\ indicators' = ind
                  /\ raised' = IF FormatRaises(ind) THEN "ZeroDivisionError"
                                                    ELSE "none"
                  /\ pc' = IF FormatRaises(ind) THEN "crashed" ELSE "derived"
    /\ UNCHANGED <<sim, signalled, response, market_data, event>>
    /\ UNCHANGED marketVars
    /\ UNCHANGED trainVars

IndicatorNext == Derive

IndicatorSpec == IndicatorInit /\ [][IndicatorNext]_vars

(***************************************************************************)
(* Claims on the indicators.                                               *)
(***************************************************************************)
\* C7: the RSI returned by generate_indicators lies in [5, 95] for every
\* snapshot and every draw of its noise.
C7_RsiInRange ==
    pc = "derived" => indicators.rsi >= 500 /\ indicators.rsi <= 9500

\* C7: a 24h change of +200% puts the unclamped value far above 95
C7_Witness ==
    /\ pc = "derived"
    /\ 5000 + 2 * market_data.price_change_24h > 9500 + 1000
    /\ indicators.rsi = 9500

\* C8: the funding rate returned by generate_indicators lies in [-0.2, 0.2]
\* for every snapshot and every draw of its noise.
C8_FundingInRange ==
    pc = "derived" =>
        indicators.funding >= -20000 /\ indicators.funding <= 20000

(***************************************************************************)
(* MarketEvents.simulate_market_event (app/crypto_sim/events.py).          *)
(***************************************************************************)
\* the three templates: level, number of candidate messages, delay range
\* in seconds
MarketTemplates ==
    << [level |-> "ALERT", messages |-> 8, delay_range |-> <<2, 5>>],
       [level |-> "WARN", messages |-> 8, delay_range |-> <<1, 3>>],
       [level |-> "INFO", messages |-> 8, delay_range |-> <<1, 2>> ] >>

\* the two tests in the other order: the all-time-low test first
EventWeightsLowFirst(md) ==
    IF md.price * 10 < md.atl * 12 THEN <<20, 30, 50>>
    ELSE IF md.price * 100 > md.ath * 95 THEN <<50, 30, 20>>
    ELSE <<33, 34, 33>>

\* event_weights, in percent: the snapshot's price against 0.95 * ath, then
\* against 1.2 * atl
EventWeights(md) ==
    IF md.price * 100 > md.ath * 95 THEN <<50, 30, 20>>
    ELSE IF md.price * 10 < md.atl * 12 THEN <<20, 30, 50>>
    ELSE <<33, 34, 33>>

\* random.choices([0, 1, 2], weights)[0] for the draw r of random.random(),
\* in percent: the first template whose cumulative weight exceeds r
Chosen(weights, r) ==
    IF r < weights[1] THEN 1
    ELSE IF r < weights[1] + weights[2] THEN 2
    ELSE 3

\* the draws of one call: the weighted choice, the message, the delay at an
\* end of its range, the optional detail and impact
EventDraws ==
    [r : {0, 19, 20, 32, 33, 49, 50, 66, 67, 79, 80, 99}, message : 1..8,
     longest : BOOLEAN, detail : BOOLEAN, impact : BOOLEAN]

\* simulate_market_event(current_price, market_data)
simulate_market_event(d, price, md) ==
    LET weights == EventWeights(md)
        type == Chosen(weights, d.r)
        template == MarketTemplates[type]
    IN  [level |-> template.level,
         type |-> type,
         message |-> d.message,
         detail |-> d.detail,
         impact |-> d.impact,
         weights |-> weights,
         delay |-> IF d.longest THEN template.delay_range[2]
                                ELSE template.delay_range[1]]

(***************************************************************************)
(* EventSpec: the event of a snapshot at its initial price.                *)
(***************************************************************************)
EventInit ==
    /\ sim = "market"
    /\ pc = "emit"
    /\ raised = "none"
    /\ signalled = FALSE
    /\ response \in IntactResponses
    /\ MarketLocals(get_market_data(response))
    /\ indicators = NoIndicators
    /\ event = NoEvent
    /\ TrainIdle
    /\ config = NoConfig

\* run(), line 110
Emit ==
    /\ pc = "emit"
    /\ \E d \in EventDraws :
         event' = simulate_market_event(d, current_price, market_data)
    /\ pc' = "emitted"
    /\ UNCHANGED <<sim, raised, signalled, response, market_data, indicators>>
    /\ UNCHANGED marketVars
    /\ UNCHANGED trainVars

EventNext == Emit

EventSpec == EventInit /\ [][EventNext]_vars

(***************************************************************************)
(* Claims on the events.                                                   *)
(***************************************************************************)
\* C10: whenever the snapshot's price is above 0.95 * all-time-high, the
\* ALERT (bearish) template weighs at least as much as the INFO (bullish)
\* template, also when the price is below 1.2 * all-time-low.
C10_AdverseWeighsMore ==
    (pc = "emitted" /\ market_data.price * 100 > market_data.ath * 95)
        => event.weights[1] >= event.weights[3]

\* C10: an event of a snapshot that is above 0.95 * ath and below 1.2 * atl
C10_Witness ==
    /\ pc = "emitted"
    /\ market_data.price * 100 > market_data.ath * 95
    /\ market_data.price * 10 < market_data.atl * 12
    /\ event.weights = <<50, 30, 20>>

(***************************************************************************)
(* Claims on the price process.                                            *)
(***************************************************************************)
\* C3: from one tick to the next high_price never falls and low_price never
\* rises, and after every tick low_price <= current_price <= high_price.
C3_HighLowTrackPrice ==
    [][/\ high_price' >= high_price
       /\ low_price' <= low_price
       /\ low_price' <= current_price'
       /\ current_price' <= high_price']_vars

\* C3: after a rise and a fall the price lies strictly between the two
C3_Witness ==
    /\ ticks >= 2
    /\ low_price < current_price
    /\ current_price < high_price

\* C4: after any sequence of ticks the price is strictly positive (the
\* model's integers are always finite).
C4_PricePositive == current_price > 0

(***************************************************************************)
(* Spec: a whole run of one simulator, with Ctrl+C arriving at any point.  *)
(* MarketSimulator.run (app/crypto_sim/simulator.py), LLMSimulator.run     *)
(* (app/training_sim/models/llm_simulator/simulator.py) and                *)
(* SegmentationSimulator.run                                               *)
(* (app/training_sim/models/segmentation_simulator/simulator.py).          *)
(* Tokens count in hundredths of tokens_per_step.                          *)
(***************************************************************************)
\* epochs and steps per epoch the training runs are followed for
MaxEpochsLLM == 2

\* config.total_tokens: 203.87 steps' worth, as the default 4.5e12 is
\* 523.87 steps' worth
TotalTokensLLM == 20387

\* self.tokens_per_step = batch_size * num_gpus * seq_length
TokensPerStep == 100

\* self.total_steps = int(config.total_tokens / self.tokens_per_step)
TotalStepsLLM == TotalTokensLLM \div TokensPerStep

\* self.steps_per_epoch = self.total_steps // config.max_epochs
StepsPerEpochLLM == TotalStepsLLM \div MaxEpochsLLM

MaxEpochsSeg == 6

StepsPerEpochSeg == 2

\* checkpoint_freq and the period of the summaries
CheckpointFreqLLM == 100

SummaryEveryLLM == 50

CheckpointFreqSeg == 5

SummaryEverySeg == 100

\* the chance of an issue or event in a tick, percent
IssueChanceLLM == 8

IssueChanceSeg == 5

EventChanceMarket == 5

MaxEpochs(s) == IF s = "llm" THEN MaxEpochsLLM ELSE MaxEpochsSeg

StepsPerEpoch(s) == IF s = "llm" THEN StepsPerEpochLLM ELSE StepsPerEpochSeg

EventChance(s) ==
    CASE s = "llm" -> IssueChanceLLM
      [] s = "seg" -> IssueChanceSeg
      [] OTHER -> EventChanceMarket

\* values of random.random(), percent: both ends of [0, 1) and both sides
\* of the chance
RandomDraws(chance) == {0, chance - 1, chance, 99}

FiresAtOrBelow(r, chance) == r <= chance

\* `random.random() < 0.08`, `< 0.05`
Fires(r, chance) == r < chance

\* error_templates: level, number of messages, delay range in seconds
TrainingTemplates ==
    { [level |-> "ERROR", messages |-> 7, lo |-> 3, hi |-> 8],
      [level |-> "WARN", messages |-> 5, lo |-> 2, hi |-> 5],
      [level |-> "INFO", messages |-> 4, lo |-> 1, hi |-> 3] }

SegmentationTemplates ==
    { [level |-> "ERROR", messages |-> 7, lo |-> 3, hi |-> 8],
      [level |-> "WARN", messages |-> 5, lo |-> 2, hi |-> 5],
      [level |-> "INFO", messages |-> 5, lo |-> 1, hi |-> 3] }

error_templates(s) ==
    IF s = "llm" THEN TrainingTemplates ELSE SegmentationTemplates

simulate_issue_any_delay(templates) ==
    UNION { { [level |-> t.level, message |-> m, delay |-> d] :
                m \in 1..t.messages,
                d \in UNION { {u.lo, u.hi} : u \in templates } } :
            t \in templates }

\* BaseSimulator.simulate_issue: the issues one call can return, the delay
\* at either end of the template's range
simulate_issue(templates) ==
    UNION { { [level |-> t.level, message |-> m, delay |-> d] :
                m \in 1..t.messages, d \in {t.lo, t.hi} } :
            t \in templates }

IssuePauseUndoubled(s, delay) == delay

\* the pause after an issue: delay * 2 in the LLM loop, delay in the
\* segmentation loop
IssuePause(s, delay) == IF s = "llm" THEN delay * 2 ELSE delay

\* `step % self.checkpoint_freq == 0 and step > 0`;
\* `epoch > 0 and epoch % self.checkpoint_freq == 0 and step == 0`
CheckpointDue(s, e, st) ==
    IF s = "llm"
    THEN st % CheckpointFreqLLM = 0 /\ st > 0
    ELSE e > 0 /\ e % CheckpointFreqSeg = 0 /\ st = 0

\* `step % 50 == 0`; `step % 100 == 0`
SummaryDue(s, st) ==
    IF s = "llm" THEN st % SummaryEveryLLM = 0 ELSE st % SummaryEverySeg = 0

\* a call with positional arguments only is accepted when the callee
\* declares as many parameters
CallAccepted(args, params) == Len(args) = Len(params)

\* def generate_market_metrics(base_volatility, current_price, market_data)
MetricsParams == <<"base_volatility", "current_price", "market_data">>

\* the call of run(), lines 97-99
MetricsCallArgs ==
    <<"elapsed", "base_volatility", "current_price", "market_data">>

\* def generate_indicators(volume, market_data)
IndicatorsParams == <<"volume", "market_data">>

\* the call of run(), line 115
IndicatorsCallArgs == <<"current_price", "current_volume", "market_data">>

\* the keys of market_data the market simulation reads
FieldsRead ==
    {"price", "volume", "market_cap", "price_change_24h", "ath", "atl",
     "volatility", "dominance"}

\* the positions of run() before its try statement
OutsideTry == {"fetch", "init"}

\* the positions a run has ended in
Ended == {"terminated", "interrupted", "crashed"}

\* the locals the except branch passes to the summary
HandlerReads(s) ==
    CASE s = "llm" -> {"epoch", "step", "tokens_seen", "metrics"}
      [] s = "seg" -> {"epoch", "step", "metrics"}
      [] OTHER -> {}

ExitIntoLoop(s) == "sleep"

\* after the summary: `sys.exit(0)` in the training runs, `return` in the
\* market run
Exit(s) == "interrupted"

NoResponse == [kind |-> "none"]

\* self.config.max_epochs, self.steps_per_epoch, self.checkpoint_freq and,
\* in the LLM simulator, config.total_tokens and self.tokens_per_step
Config(s) ==
    CASE s = "llm" ->
           [max_epochs |-> MaxEpochsLLM, steps_per_epoch |-> StepsPerEpochLLM,
            checkpoint_freq |-> CheckpointFreqLLM,
            total_tokens |-> TotalTokensLLM, tokens_per_step |-> TokensPerStep]
      [] s = "seg" ->
           [max_epochs |-> MaxEpochsSeg, steps_per_epoch |-> StepsPerEpochSeg,
            checkpoint_freq |-> CheckpointFreqSeg]
      [] OTHER -> NoConfig

\* math.exp(-f / 1000) for 0 <= f < 1000, in 1/10000: the series
\* 1 - f(1 - f/2(1 - f/3(...))) from its k-th factor on
RECURSIVE ExpNegFraction(_, _)
ExpNegFraction(f, k) ==
    IF k > 8 THEN 10000
    ELSE 10000 - DivR(f * ExpNegFraction(f, k + 1), 1000 * k)

\* math.exp(-x / 1000) for x >= 0, in 1/10000
RECURSIVE ExpNeg(_)
ExpNeg(x) ==
    IF x >= 1000 THEN DivR(3679 * ExpNeg(x - 1000), 10000)
    ELSE ExpNegFraction(x, 1)

ProgressInEpoch(e, st, n) == DivR(1000 * st, n)

\* epoch + step / self.steps_per_epoch, in 1/1000
Progress(e, st, n) == DivR(1000 * (e * n + st), n)

\* random.uniform(0.01, 0.03) at either end, in 1/10000
NoiseDraws == {100, 300}

\* train_loss = 2.8 * math.exp(-progress * 1.2) + random.uniform(0.01, 0.03)
TrainLoss(progress, noise) ==
    DivR(28 * ExpNeg(DivR(12 * progress, 10)), 10) + noise

\* dice_score = 0.5 + 0.35 * (1 - math.exp(-2 * progress))
\*                  + random.uniform(0.01, 0.03)
DiceScore(progress, noise) ==
    5000 + DivR(35 * (10000 - ExpNeg(2 * progress)), 100) + noise

\* generate_metrics: the metric the loop keeps the best of
generate_metrics(s, progress, noise) ==
    IF s = "llm" THEN [train_loss |-> TrainLoss(progress, noise)]
    ELSE [dice_score |-> DiceScore(progress, noise)]

BestOverwritten(s, best, m) ==
    IF s = "llm" THEN m.train_loss ELSE m.dice_score

\* self.best_metric = min(self.best_metric, metrics['train_loss']);
\* self.best_metric = max(self.best_metric, metrics['dice_score'])
Best(s, best, m) ==
    IF s = "llm" THEN Min(best, m.train_loss) ELSE Max(best, m.dice_score)

TotalTokensSeenInEpoch(seen, e, c) == seen

\* total_tokens_seen = tokens_seen
\*     + (epoch * self.steps_per_epoch * self.tokens_per_step)
TotalTokensSeen(seen, e, c) ==
    seen + e * c.steps_per_epoch * c.tokens_per_step

\* the chance of each candidate insight, percent, in list order
InsightChances(s) ==
    CASE s = "llm" -> <<20, 20, 30, 10, 20, 30>>
      [] s = "seg" -> <<20, 20, 30, 20, 20, 30>>
      [] OTHER -> <<20, 20, 30, 20, 20, 30, 20, 30>>

\* max_insights of print_training_insights, and the 2 of the market loop
MaxInsights == 2

\* values of random.random(), percent, for the candidates: just below and
\* at each chance
GateDraws(chances) ==
    {[i \in 1..Len(chances) |->
         IF i \in passing THEN chances[i] - 1 ELSE chances[i]] :
     passing \in SUBSET (1..Len(chances))}

RECURSIVE SelectedUnlimited(_, _, _, _)
SelectedUnlimited(chances, gates, i, selected) ==
    IF i > Len(chances) THEN selected
    ELSE SelectedUnlimited(chances, gates, i + 1,
                           IF gates[i] < chances[i]
                           THEN Append(selected, i) ELSE selected)

\* `for insight, prob in insights:` from candidate i on, with the insights
\* selected so far
RECURSIVE Selected(_, _, _, _)
Selected(chances, gates, i, selected) ==
    IF i > Len(chances) THEN selected
    ELSE Selected(chances, gates, i + 1,
                  IF gates[i] < chances[i] /\ Len(selected) < MaxInsights
                  THEN Append(selected, i) ELSE selected)

\* the selection loop: the draws made and the candidates printed
print_insights(chances, gates) ==
    [gates |-> gates, selected |-> Selected(chances, gates, 1, <<>>)]

priceVars ==
    <<initial_price, current_price, current_volume, high_price, low_price,
      price_change>>

Training == sim \in {"llm", "seg"}

\* an exception nothing catches ends the run
Crash(error) ==
    /\ raised' = error
    /\ pc' = "crashed"

Init ==
    /\ sim \in {"market", "llm", "seg"}
    /\ pc = IF sim = "market" THEN "fetch" ELSE "init"
    /\ raised = "none"
    /\ signalled = FALSE
    /\ response \in IF sim = "market" THEN Responses ELSE {NoResponse}
    /\ market_data = NoData
    /\ initial_price = 0
    /\ current_price = 0
    /\ current_volume = 0
    /\ high_price = 0
    /\ low_price = 0
    /\ price_change = 0
    /\ ticks = 0
    /\ indicators = NoIndicators
    /\ event = NoEvent
    /\ TrainIdle
    /\ config = Config(sim)

\* MarketSimulator.run, lines 76-79
Fetch ==
    /\ sim = "market"
    /\ pc = "fetch"
    /\ market_data' = get_market_data(response)
    /\ initial_price' = market_data'.price
    /\ pc' = "init"
    /\ UNCHANGED <<sim, raised, signalled, response, current_price,
                   current_volume, high_price, low_price, price_change,
                   ticks, indicators, event>>
    /\ UNCHANGED trainVars

initialize_simulation_rescaling ==
    /\ sim = "market"
    /\ pc = "init"
    /\ market_data' = [market_data EXCEPT !.volume = InitialVolume(market_data)]
    /\ current_price' = initial_price
    /\ current_volume' = market_data'.volume
    /\ high_price' = initial_price
    /\ low_price' = initial_price
    /\ pc' = "tick"
    /\ UNCHANGED <<sim, raised, signalled, response, initial_price,
                   price_change, ticks, indicators, event>>
    /\ UNCHANGED trainVars

\* MarketSimulator.run, lines 81-88: the banner, initialize_simulation and
\* the loop's locals
initialize_simulation ==
    /\ sim = "market"
    /\ pc = "init"
    /\ current_price' = initial_price
    /\ current_volume' = InitialVolume(market_data)
    /\ high_price' = initial_price
    /\ low_price' = initial_price
    /\ pc' = "tick"
    /\ UNCHANGED <<sim, raised, signalled, response, market_data,
                   initial_price, price_change, ticks, indicators, event>>
    /\ UNCHANGED trainVars

\* the first exception a tick of the market loop meets before it updates
\* the price (lines 97-99)
MetricsError(price, md) ==
    IF ~CallAccepted(MetricsCallArgs, MetricsParams) THEN "TypeError"
    ELSE IF MetricsRaises(price, md) THEN "ZeroDivisionError"
    ELSE "none"

\* the first exception lines 115-116 meet
IndicatorsError(ind, md) ==
    IF ~CallAccepted(IndicatorsCallArgs, IndicatorsParams) THEN "TypeError"
    ELSE IF IndicatorsRaise(md) \/ FormatRaises(ind) THEN "ZeroDivisionError"
    ELSE "none"

\* MarketSimulator.run, lines 92-126: one pass of `while True`
MarketTick ==
    /\ sim = "market"
    /\ pc = "tick"
    /\ IF MetricsError(current_price, market_data) # "none"
       THEN /\ Crash(MetricsError(current_price, market_data))
            /\ UNCHANGED <<marketVars, indicators, event, draw, advances,
                           renders>>
       ELSE \E d \in MetricDraws, r \in RandomDraws(EventChance(sim)),
               e \in EventDraws, i \in IndicatorDraws :
              LET ind == generate_indicators(i, current_volume', market_data)
                  error == IndicatorsError(ind, market_data)
              IN  /\ ticks < MaxTicks
                  /\ Advance(d)
                  /\ advances' = advances + 1
                  /\ draw' = r
                  /\ event' = IF Fires(r, EventChance(sim))
                              THEN simulate_market_event(e, current_price',
                                                         market_data)
                              ELSE NoEvent
                  /\ IF error # "none"
                     THEN /\ Crash(error)
                          /\ UNCHANGED <<indicators, renders, ticks>>
                     ELSE /\ indicators' = ind
                          /\ renders' = renders + 1
                          /\ ticks' = ticks + 1
                          /\ UNCHANGED <<pc, raised>>
                  /\ UNCHANGED initial_price
    /\ UNCHANGED <<sim, signalled, response, market_data>>
    /\ UNCHANGED <<epoch, step, tokens_seen, bound, summaries, metrics,
                   best_metric, config,
                   loopVars>>

\* BaseSimulator.initialize_environment and `self.start_time = ...`, called
\* by run() before its try statement
initialize_environment ==
    /\ Training
    /\ pc = "init"
    /\ pc' = "epoch_first"
    /\ UNCHANGED <<sim, raised, signalled, response, market_data, indicators,
                   event>>
    /\ UNCHANGED marketVars
    /\ UNCHANGED trainVars

ForEpochThenSummary ==
    /\ Training
    /\ pc \in {"epoch_first", "epoch_next"}
    /\ LET next == IF pc = "epoch_first" THEN 0 ELSE epoch + 1
       IN  IF next < config.max_epochs
           THEN /\ epoch' = next
                /\ tokens_seen' = 0
                /\ bound' = bound \cup {"epoch"}
                              \cup (IF sim = "llm" THEN {"tokens_seen"} ELSE {})
                /\ pc' = "step_first"
                /\ UNCHANGED summaries
           ELSE /\ pc' = "terminated"
                /\ summaries' = summaries + 1
                /\ UNCHANGED <<epoch, tokens_seen, bound>>
    /\ UNCHANGED <<sim, raised, signalled, response, market_data, indicators,
                   event, step, draw, advances, renders, metrics,
                   best_metric, config, loopVars>>
    /\ UNCHANGED marketVars

\* `for epoch in range(self.config.max_epochs):` and, in the LLM loop,
\* `tokens_seen = 0`; the run returns when the range is exhausted
ForEpoch ==
    /\ Training
    /\ pc \in {"epoch_first", "epoch_next"}
    /\ LET next == IF pc = "epoch_first" THEN 0 ELSE epoch + 1
       IN  IF next < config.max_epochs
           THEN /\ epoch' = next
                /\ tokens_seen' = 0
                /\ bound' = bound \cup {"epoch"}
                              \cup (IF sim = "llm" THEN {"tokens_seen"} ELSE {})
                /\ pc' = "step_first"
           ELSE /\ pc' = "terminated"
                /\ UNCHANGED <<epoch, tokens_seen, bound>>
    /\ UNCHANGED <<sim, raised, signalled, response, market_data, indicators,
                   event, step, draw, advances, renders, summaries, metrics,
                   best_metric, config,
                   loopVars>>
    /\ UNCHANGED marketVars

ForStepInclusive ==
    /\ Training
    /\ pc \in {"step_first", "step_next"}
    /\ LET next == IF pc = "step_first" THEN 0 ELSE step + 1
       IN  IF next <= config.steps_per_epoch
           THEN /\ step' = next
                /\ bound' = bound \cup {"step"}
                /\ pc' = "issue"
           ELSE /\ pc' = "epoch_next"
                /\ UNCHANGED <<step, bound>>
    /\ UNCHANGED <<sim, raised, signalled, response, market_data, indicators,
                   event, epoch, tokens_seen, draw, advances, renders,
                   summaries, metrics, best_metric, config,
                   loopVars>>
    /\ UNCHANGED marketVars

\* `for step in range(self.steps_per_epoch):`
ForStep ==
    /\ Training
    /\ pc \in {"step_first", "step_next"}
    /\ LET next == IF pc = "step_first" THEN 0 ELSE step + 1
       IN  IF next < config.steps_per_epoch
           THEN /\ step' = next
                /\ bound' = bound \cup {"step"}
                /\ pc' = "issue"
           ELSE /\ pc' = "epoch_next"
                /\ UNCHANGED <<step, bound>>
    /\ UNCHANGED <<sim, raised, signalled, response, market_data, indicators,
                   event, epoch, tokens_seen, draw, advances, renders,
                   summaries, metrics, best_metric, config,
                   loopVars>>
    /\ UNCHANGED marketVars

\* `if random.random() < 0.08:` with the call of simulate_issue and the
\* print of the issue
MaybeIssue ==
    /\ Training
    /\ pc = "issue"
    /\ \E r \in RandomDraws(EventChance(sim)) :
         /\ draw' = r
         /\ IF Fires(r, EventChance(sim))
            THEN \E issue \in simulate_issue(error_templates(sim)) :
                    /\ event' = [level |-> issue.level,
                                 message |-> issue.message,
                                 delay |-> issue.delay,
                                 pause |-> IssuePause(sim, issue.delay)]
                    /\ pc' = "issue_sleep"
            ELSE /\ event' = NoEvent
                 /\ pc' = "advance"
    /\ UNCHANGED <<sim, raised, signalled, response, market_data, indicators,
                   epoch, step, tokens_seen, bound, advances, renders,
                   summaries, metrics, best_metric, config,
                   loopVars>>
    /\ UNCHANGED marketVars

IssueSleepSkipsAdvance ==
    /\ Training
    /\ pc = "issue_sleep"
    /\ pc' = "status"
    /\ UNCHANGED <<sim, raised, signalled, response, market_data, indicators,
                   event>>
    /\ UNCHANGED marketVars
    /\ UNCHANGED trainVars

\* `time.sleep(delay * 2)`, `time.sleep(delay)`
IssueSleep ==
    /\ Training
    /\ pc = "issue_sleep"
    /\ pc' = "advance"
    /\ UNCHANGED <<sim, raised, signalled, response, market_data, indicators,
                   event>>
    /\ UNCHANGED marketVars
    /\ UNCHANGED trainVars

\* the tick's state advance: tokens_seen, metrics and best_metric
TrainAdvance ==
    /\ Training
    /\ pc = "advance"
    /\ tokens_seen' = IF sim = "llm"
                      THEN tokens_seen + config.tokens_per_step
                      ELSE tokens_seen
    /\ total_tokens_seen' =
           IF sim = "llm" THEN TotalTokensSeen(tokens_seen', epoch, config)
           ELSE total_tokens_seen
    /\ last_progress' = Progress(epoch, step, config.steps_per_epoch)
    /\ \E noise \in NoiseDraws :
         /\ metrics' = generate_metrics(
                           sim, Progress(epoch, step, config.steps_per_epoch),
                           noise)
         /\ best_metric' = Best(sim, best_metric, metrics')
    /\ bound' = bound \cup {"metrics"}
    /\ advances' = advances + 1
    /\ draw' = -1
    /\ event' = NoEvent
    /\ pc' = "status"
    /\ UNCHANGED <<sim, raised, signalled, response, market_data, indicators,
                   epoch, step, renders, summaries, config, clock, elapsed,
                   details, checkpoints, insights>>
    /\ UNCHANGED marketVars

\* elapsed, throughput, eta and the status line
PrintStatus ==
    /\ Training
    /\ pc = "status"
    /\ renders' = renders + 1
    /\ pc' = IF CheckpointDue(sim, epoch, step) THEN "checkpoint"
             ELSE IF SummaryDue(sim, step) THEN "summary"
             ELSE "sleep"
    /\ UNCHANGED <<sim, raised, signalled, response, market_data, indicators,
                   event, epoch, step, tokens_seen, bound, draw, advances,
                   summaries, metrics, best_metric, config,
                   loopVars>>
    /\ UNCHANGED marketVars

\* the checkpoint branch with its sleep
SaveCheckpoint ==
    /\ Training
    /\ pc = "checkpoint"
    /\ checkpoints' = checkpoints + 1
    /\ pc' = IF SummaryDue(sim, step) THEN "summary" ELSE "sleep"
    /\ UNCHANGED <<sim, raised, signalled, response, market_data, indicators,
                   event>>
    /\ UNCHANGED marketVars
    /\ UNCHANGED <<epoch, step, tokens_seen, bound, draw, advances, renders,
                   summaries, metrics, best_metric, config, clock, elapsed,
                   details, insights, last_progress, total_tokens_seen>>

\* the periodic summary: system metrics, training dynamics and insights
PeriodicSummary ==
    /\ Training
    /\ pc = "summary"
    /\ \E gates \in GateDraws(InsightChances(sim)) :
         insights' = print_insights(InsightChances(sim), gates)
    /\ pc' = "sleep"
    /\ UNCHANGED <<sim, raised, signalled, response, market_data, indicators,
                   event>>
    /\ UNCHANGED marketVars
    /\ UNCHANGED <<epoch, step, tokens_seen, bound, draw, advances, renders,
                   summaries, metrics, best_metric, config, clock, elapsed,
                   details, checkpoints, last_progress, total_tokens_seen>>

\* `time.sleep(1.5)`, `time.sleep(0.1)`: the tick is complete
PacingSleep ==
    /\ Training
    /\ pc = "sleep"
    /\ ticks' = ticks + 1
    /\ insights' = NoInsights
    /\ pc' = "step_next"
    /\ UNCHANGED <<sim, raised, signalled, response, market_data, indicators,
                   event>>
    /\ UNCHANGED priceVars
    /\ UNCHANGED <<epoch, step, tokens_seen, bound, draw, advances, renders,
                   summaries, metrics, best_metric, config, clock, elapsed,
                   details, checkpoints, last_progress, total_tokens_seen>>

\* Ctrl+C: KeyboardInterrupt is raised at the run's current position; the
\* except branch takes it only inside the try statement
Interrupt ==
    /\ ~signalled
    /\ pc \notin Ended
    /\ signalled' = TRUE
    /\ IF pc \in OutsideTry
       THEN Crash("KeyboardInterrupt")
       ELSE /\ pc' = "handler"
            /\ UNCHANGED raised
    /\ UNCHANGED <<sim, response, market_data, indicators, event>>
    /\ UNCHANGED marketVars
    /\ UNCHANGED trainVars

\* `except KeyboardInterrupt:` the summary is called with the loop's locals
\* and the run exits
Handler ==
    /\ pc = "handler"
    /\ IF ~(HandlerReads(sim) \subseteq bound)
       THEN /\ Crash("UnboundLocalError")
            /\ UNCHANGED summaries
       ELSE IF sim = "market" /\ initial_price = 0
       THEN /\ Crash("ZeroDivisionError")
            /\ UNCHANGED summaries
       ELSE /\ summaries' = summaries + 1
            /\ pc' = Exit(sim)
            /\ UNCHANGED raised
    /\ UNCHANGED <<sim, signalled, response, market_data, indicators, event,
                   epoch, step, tokens_seen, bound, draw, advances, renders,
                   metrics, best_metric, config,
                   loopVars>>
    /\ UNCHANGED marketVars

Next ==
    \/ Fetch
    \/ initialize_simulation
    \/ MarketTick
    \/ initialize_environment
    \/ ForEpoch
    \/ ForStep
    \/ MaybeIssue
    \/ IssueSleep
    \/ TrainAdvance
    \/ PrintStatus
    \/ SaveCheckpoint
    \/ PeriodicSummary
    \/ PacingSleep
    \/ Interrupt
    \/ Handler

Spec == Init /\ [][Next]_vars

(***************************************************************************)
(* Claims on the whole run.                                                *)
(***************************************************************************)
\* C1: once a cancellation has arrived after at least one completed tick,
\* the run is in its except branch or has exited, the terminal summary has
\* been printed exactly once when it has exited and not before, and no state
\* advance, event, status line or tick happens any more.
C1_CancelledAfterTicks ==
    [][(signalled' /\ ticks' >= 1) =>
          /\ pc' \in {"handler", "interrupted"}
          /\ summaries' = IF pc' = "interrupted" THEN 1 ELSE 0
          /\ advances' = advances
          /\ renders' = renders
          /\ event' = event
          /\ ticks' = ticks]_vars

\* C1: a run cancelled after a completed tick has printed its summary and
\* exited
C1_Witness ==
    /\ signalled
    /\ ticks >= 1
    /\ pc = "interrupted"
    /\ summaries = 1

\* C2: a run that has been cancelled has raised no error, wherever the
\* cancellation arrived.
C2_CancelledWithoutError == signalled => raised = "none"

\* C5: the market run raises nothing but the user's cancellation.
C5_MarketTickNeverRaises ==
    sim = "market" => raised \in {"none", "KeyboardInterrupt"}

\* C6: when the fetch fails, get_market_data raises nothing and the run goes
\* on with exactly the built-in record, which has every field the market
\* simulation reads.
C6_FallbackOnFailure ==
    [][(pc = "fetch" /\ ~signalled' /\ FetchRaises(response)) =>
          /\ pc' = "init"
          /\ raised' = "none"
          /\ market_data' =
               [price |-> 42000, volume |-> 5000000, high_24h |-> 43000,
                low_24h |-> 41000, price_change_24h |-> -150,
                market_cap |-> 800000, ath |-> 69000, atl |-> 3000,
                volatility |-> 200, dominance |-> 450]
          /\ FieldsRead \subseteq DOMAIN market_data']_vars

\* C6: a reply with a missing field has been answered with the built-in
\* record and the simulation has started from it
C6_Witness ==
    /\ response.kind = "json"
    /\ response.has_market_data
    /\ response.how = "missing"
    /\ pc = "tick"
    /\ current_price = 42000
    /\ market_data.dominance = 450

\* C9: right after a tick's draw an issue is being shown exactly when the
\* draw succeeded, the issue's pause is entered only with an issue, and a
\* chance of 0 fires for no draw of [0, 1) while a chance of 1 fires for
\* every draw.
C9_EventIffDrawSucceeds ==
    /\ pc \in {"issue_sleep", "advance"} =>
          (event # NoEvent <=> draw < EventChance(sim))
    /\ pc = "issue_sleep" => event # NoEvent
    /\ event # NoEvent => pc \in {"issue_sleep", "advance", "handler",
                                  "interrupted", "crashed"}
    /\ \A r \in 0..99 : ~Fires(r, 0) /\ Fires(r, 100)

\* C9: a tick whose draw fell below the chance is showing its issue
C9_Witness ==
    /\ pc = "issue_sleep"
    /\ draw = 0
    /\ event # NoEvent
    /\ event.pause > 0

(***************************************************************************)
(* DriftSpec: the price process (generate_market_metrics and run() lines   *)
(* 100-104) from a price of 42000 with every cycle drawn at its midpoint 0 *)
(* and the volume draw at its mean 0.                                      *)
(***************************************************************************)
\* ticks the drift is followed for
DriftTicks == 100

\* the drift is followed while |price| is within this many dollars: keeps
\* the model's integers in range
PriceCap == 300000

\* the factor by which a band is wider than 100 single-tick deviations
SafetyFactor == 10

\* live figures at a price of 42000 that did not move within the day: with
\* the documented high and low, with a low close below the price, with high
\* and low both at the price
DriftSamples ==
    { [current_price |-> 42000, total_volume |-> 5000000, high_24h |-> 43000,
       low_24h |-> 41000, price_change_percentage_24h |-> 0,
       market_cap |-> 800000, ath |-> a.ath, atl |-> a.atl] :
         a \in { [ath |-> 69000, atl |-> 3000],
                 [ath |-> 69000, atl |-> 40000],
                 [ath |-> 42000, atl |-> 42000] } }

\* the fetch fails (the built-in record, price 42000) or returns one of the
\* samples
DriftResponses ==
    { [kind |-> "network_error"] }
      \cup { [kind |-> "json", has_market_data |-> TRUE, figures |-> l,
              broken |-> "atl", how |-> "ok"] : l \in DriftSamples }

\* random.gauss(0, actual_volatility) at -2, 0 or 2 standard deviations, the
\* four random.uniform cycles and random.gauss(0, 0.1) at 0
DriftDraws ==
    { [gauss |-> g, long |-> 0, medium |-> 0, short |-> 0, micro |-> 0,
       volume |-> 0] : g \in {-2, 0, 2} }

\* the standard deviation of one tick's random walk term, in 1/10000
TickVolatility(md) == ActualVolatility(BaseVolatility(md), md)

DriftInit ==
    /\ sim = "market"
    /\ pc = "drift"
    /\ raised = "none"
    /\ signalled = FALSE
    /\ response \in DriftResponses
    /\ MarketLocals(get_market_data(response))
    /\ indicators = NoIndicators
    /\ event = NoEvent
    /\ TrainIdle
    /\ config = NoConfig

\* one tick of the process with the midpoint draws
DriftTick ==
    /\ pc = "drift"
    /\ ticks < DriftTicks
    /\ Abs(current_price) <= PriceCap
    /\ IF MetricsRaises(current_price, market_data)
       THEN /\ Crash("ZeroDivisionError")
            /\ UNCHANGED marketVars
       ELSE /\ \E d \in DriftDraws : Advance(d)
            /\ ticks' = ticks + 1
            /\ UNCHANGED <<pc, raised, initial_price>>
    /\ UNCHANGED <<sim, signalled, response, market_data, indicators, event>>
    /\ UNCHANGED trainVars

DriftNext == DriftTick

DriftSpec == DriftInit /\ [][DriftNext]_vars

TickBoundary ==
    {"tick", "epoch_first", "epoch_next", "step_first", "step_next"}

\* C12: the except branch is entered only from a tick boundary: a Ctrl+C
\* arriving inside a tick or during one of its sleeps lets the tick and the
\* sleep complete first.
C12_CancelledAtTickBoundary ==
    [][(pc' = "handler" /\ pc # "handler") => pc \in TickBoundary]_vars

\* C13: drawing, printing and pausing for an event or issue changes nothing
\* but the event shown and the position: price, volume, high and low, epoch,
\* step, tokens_seen, metrics, best_metric and every counter keep their
\* value and the tick goes on to its state update, which is the same update
\* whether an event was shown or not.
C13_EventOnlyTextAndDelay ==
    [][/\ (pc \in {"issue", "issue_sleep", "emit"} /\ ~signalled') =>
            /\ pc' \in {"issue_sleep", "advance", "emitted"}
            /\ UNCHANGED <<priceVars, ticks, market_data, config, epoch, step,
                           tokens_seen, metrics, best_metric, bound, advances,
                           renders, summaries, raised>>
       /\ (pc = "advance" /\ ~signalled') =>
            /\ pc' = "status"
            /\ UNCHANGED <<epoch, step, ticks, renders, config>>
            /\ tokens_seen' = IF sim = "llm"
                              THEN tokens_seen + config.tokens_per_step
                              ELSE tokens_seen
            /\ advances' = advances + 1
            /\ \E noise \in NoiseDraws :
                 /\ metrics' = generate_metrics(
                                  sim, Progress(epoch, step,
                                                config.steps_per_epoch), noise)
                 /\ best_metric' = Best(sim, best_metric, metrics')]_vars

\* C13: a later tick that showed an issue is about to make its state update
C13_Witness ==
    /\ pc = "advance"
    /\ event # NoEvent
    /\ advances >= 1
    /\ ~signalled

\* C14: once fetched, the snapshot record is at every point of the run the
\* record get_market_data returned, and the training configuration is at
\* every point the one the simulator was constructed with.
C14_StaticContextUnchanged ==
    /\ market_data # NoData => market_data = get_market_data(response)
    /\ pc \in {"init", "tick", "handler", "interrupted"} /\ sim = "market"
          => market_data # NoData
    /\ config = Config(sim)

\* C14: a market run started from live figures has printed its terminal
\* summary
C14_Witness ==
    /\ sim = "market"
    /\ pc = "interrupted"
    /\ summaries = 1
    /\ response.kind = "json"
    /\ ~FetchRaises(response)
    /\ market_data = LiveRecord(response)

\* the lifecycle state a position of run() belongs to; an uncaught exception
\* leaves the lifecycle
Phase(p) ==
    CASE p \in OutsideTry -> "INITIALIZING"
      [] p = "terminated" -> "TERMINATED"
      [] p = "interrupted" -> "INTERRUPTED"
      [] p = "crashed" -> "CRASHED"
      [] OTHER -> "RUNNING"

\* C15: every step of a run stays in its lifecycle state or moves along
\* INITIALIZING -> RUNNING, RUNNING -> TERMINATED or RUNNING -> INTERRUPTED.
C15_Lifecycle ==
    [][LET edge == <<Phase(pc), Phase(pc')>>
       IN  edge \in
             { <<"INITIALIZING", "INITIALIZING">>,
               <<"INITIALIZING", "RUNNING">>, <<"RUNNING", "RUNNING">>,
               <<"RUNNING", "TERMINATED">>, <<"RUNNING", "INTERRUPTED">> }]_vars

\* C16: within a tick the state is advanced before an event or issue is
\* shown and before the status line is printed, and the decision on the
\* periodic summary is taken before the status line is printed.
C16_TickOrder ==
    /\ event # NoEvent => advances = ticks + 1
    /\ renders = ticks + 1 => advances = ticks + 1
    /\ pc \in {"checkpoint", "summary"} => renders = ticks

(***************************************************************************)
(* RunSpec: the whole run with the interpreter never stopping by itself:   *)
(* every statement that can run does run, and every sleep ends.            *)
(***************************************************************************)
\* the steps of the program itself
Run ==
    \/ Fetch
    \/ initialize_simulation
    \/ MarketTick
    \/ initialize_environment
    \/ ForEpoch
    \/ ForStep
    \/ MaybeIssue
    \/ IssueSleep
    \/ TrainAdvance
    \/ PrintStatus
    \/ SaveCheckpoint
    \/ PeriodicSummary
    \/ PacingSleep
    \/ Handler

RunSpec == Init /\ [][Run \/ Interrupt]_vars /\ WF_vars(Run)

\* the ticks completed when the loops stand at epoch e and step st
TicksBefore(e, st) == e * config.steps_per_epoch + st

\* C17: in a training run the ticks completed always equal the steps the
\* loops have passed, one tick per step; a run that ended without a
\* cancellation has made exactly max_epochs * steps_per_epoch ticks, state
\* advances and status lines; and a run that is never cancelled does end.
C17_ExactTicksThenStop ==
    /\ [](Training /\ pc \in {"issue", "issue_sleep", "advance", "status",
                              "checkpoint", "summary", "sleep"}
            => ticks = TicksBefore(epoch, step))
    /\ [](Training /\ pc \in {"step_next", "epoch_next"}
            => ticks = TicksBefore(epoch, step) + 1)
    /\ [](Training /\ pc = "terminated"
            => /\ ticks = config.max_epochs * config.steps_per_epoch
               /\ advances = ticks
               /\ renders = ticks
               /\ summaries = 0)
    /\ (Training => <>(pc = "terminated" \/ signalled))

\* C17: an LLM run has come to its end without a cancellation
C17_Witness ==
    /\ sim = "llm"
    /\ pc = "terminated"
    /\ ~signalled
    /\ ticks = MaxEpochsLLM * StepsPerEpochLLM

(***************************************************************************)
(* Claims on best_metric.                                                  *)
(***************************************************************************)
\* C18: in a segmentation run, once a tick has advanced the state,
\* best_metric is finite and at least the current dice_score.
C18_BestIsMaxDice ==
    (sim = "seg" /\ advances >= 1) =>
        /\ best_metric < Infinity
        /\ best_metric >= metrics.dice_score

\* C19: in an LLM run the state advance of a tick leaves best_metric finite,
\* not above the tick's train_loss, not above its previous value and equal
\* to one of the two, that is the minimum of all train_loss values so far;
\* no other step changes best_metric or the metrics.
C19_BestIsMinLoss ==
    [][sim = "llm" =>
          IF pc = "advance" /\ pc' = "status"
          THEN /\ best_metric' < Infinity
               /\ best_metric' <= metrics'.train_loss
               /\ best_metric' <= best_metric
               /\ best_metric' \in {best_metric, metrics'.train_loss}
          ELSE /\ best_metric' = best_metric
               /\ metrics' = metrics]_vars

\* C19: a tick's train_loss came out above the best of the earlier ticks
C19_Witness ==
    /\ sim = "llm"
    /\ pc = "status"
    /\ advances >= 2
    /\ best_metric < metrics.train_loss

(***************************************************************************)
(* Claims on the mean-reversion terms.                                     *)
(***************************************************************************)
\* C20: at every price the process reaches, ath_influence is not positive,
\* atl_influence is not negative, and neither exceeds 0.1 (100 per mille) in
\* magnitude.
C20_ReversionBounded ==
    ~MetricsRaises(current_price, market_data) =>
        /\ AthInfluence(current_price, market_data) <= 0
        /\ AthInfluence(current_price, market_data) >= -100
        /\ AtlInfluence(current_price, market_data) >= 0
        /\ AtlInfluence(current_price, market_data) <= 100

(***************************************************************************)
(* Claims on the events, insights and counters of the training runs.       *)
(***************************************************************************)
\* C22: an event or issue on display carries the label of one template, a
\* message of that template's candidate list and a delay within that
\* template's range: ALERT [2, 5], WARN [1, 3] and INFO [1, 2] in the market
\* loop, ERROR [3, 8], WARN [2, 5] and INFO [1, 3] in the training loops.
C22_EventFromOneTemplate ==
    /\ (Training /\ event # NoEvent) =>
          /\ \E t \in error_templates(sim) :
                /\ event.level = t.level
                /\ event.message \in 1..t.messages
                /\ event.delay >= t.lo /\ event.delay <= t.hi
          /\ event.level = "ERROR" => event.delay \in 3..8
          /\ event.level = "WARN" => event.delay \in 2..5
          /\ event.level = "INFO" => event.delay \in 1..3
    /\ (sim = "market" /\ event # NoEvent) =>
          /\ \E i \in 1..Len(MarketTemplates) :
                /\ event.level = MarketTemplates[i].level
                /\ event.message \in 1..MarketTemplates[i].messages
                /\ event.delay >= MarketTemplates[i].delay_range[1]
                /\ event.delay <= MarketTemplates[i].delay_range[2]
          /\ event.level = "ALERT" => event.delay \in 2..5
          /\ event.level = "WARN" => event.delay \in 1..3
          /\ event.level = "INFO" => event.delay \in 1..2

\* an ERROR with the last message of its list and the longest delay is on
\* display in the LLM run
C22_Witness ==
    /\ sim = "llm"
    /\ pc = "issue_sleep"
    /\ event.level = "ERROR"
    /\ event.message = 7
    /\ event.delay = 8

\* the candidates whose gate passed
Passed(chances, gates) ==
    {i \in 1..Len(gates) : gates[i] < chances[i]}

\* C23: the insights printed by a periodic summary are the first two, in
\* list order, of the candidates whose gate passed, or all of them when
\* fewer than two passed: one gate draw per candidate, at most 2 insights,
\* no candidate twice, and none added after the second.
C23_AtMostTwoInsightsInOrder ==
    insights # NoInsights =>
        LET chances == InsightChances(sim)
            passed == Passed(chances, insights.gates)
            selected == insights.selected
        IN  /\ Len(insights.gates) = Len(chances)
            /\ Len(selected) <= 2
            /\ Len(selected) = Min(2, Cardinality(passed))
            /\ \A k \in 1..Len(selected) : selected[k] \in passed
            /\ \A k \in 1..(Len(selected) - 1) : selected[k] < selected[k + 1]
            /\ \A i \in passed :
                  (\A k \in 1..Len(selected) : selected[k] # i)
                      => Len(selected) = 2 /\ i > selected[2]

\* every gate of the LLM summary passed and the first two candidates were
\* printed
C23_Witness ==
    /\ sim = "llm"
    /\ pc = "sleep"
    /\ Cardinality(Passed(InsightChances(sim), insights.gates)) = 6
    /\ insights.selected = <<1, 2>>

\* the factors a category can have when some categories are doubled and the
\* others are not
CategoryFactors ==
    {f \in [{"ERROR", "WARN", "INFO"} -> {1, 2}] :
        \E a, b \in {"ERROR", "WARN", "INFO"} : f[a] # f[b]}

\* C25 as stated: the pause after an issue is its delay times a factor of
\* its category, 2 for some categories and 1 for the others.
C25_FactorByCategory ==
    \E f \in CategoryFactors :
        [](pc = "issue_sleep" => event.pause = event.delay * f[event.level])

\* C25: the pause after an issue is its delay times a factor of the
\* simulator and not of the category: twice the delay for every issue of
\* the LLM run, the delay itself for every issue of the segmentation run.
C25_FactorBySimulator ==
    pc = "issue_sleep" =>
        /\ sim = "llm" => event.pause = 2 * event.delay
        /\ sim = "seg" => event.pause = event.delay

\* an INFO issue of the LLM run pauses for twice its longest delay
C25_Witness ==
    /\ sim = "llm"
    /\ pc = "issue_sleep"
    /\ event.level = "INFO"
    /\ event.delay = 3
    /\ event.pause = 6

\* C26: the progress passed to the metric generator is larger at every tick
\* than at the tick before, also from the last step of an epoch to the first
\* step of the next.
C26_ProgressIncreases ==
    [][(pc = "advance" /\ pc' = "status") =>
          /\ last_progress' > last_progress
          /\ last_progress' >= 1000 * epoch]_vars

\* the first tick of the second epoch has passed progress 1.0
C26_Witness ==
    /\ Training
    /\ pc = "status"
    /\ epoch = 1
    /\ step = 0
    /\ last_progress = 1000

\* C28: the 'Checkpoints saved' count of the LLM summary,
\* (epoch * steps_per_epoch + step) // checkpoint_freq, is the number of
\* checkpoints the loop saved.
C28_CheckpointCount ==
    (sim = "llm" /\ pc = "interrupted") =>
        (epoch * config.steps_per_epoch + step) \div config.checkpoint_freq
            = checkpoints

\* C29: in the LLM run total_tokens_seen is larger at every tick than at
\* the tick before, also across an epoch boundary, and never exceeds
\* config.total_tokens.
C29_TokensIncreaseWithinTotal ==
    [][(sim = "llm" /\ pc = "advance" /\ pc' = "status") =>
          /\ total_tokens_seen' > total_tokens_seen
          /\ total_tokens_seen' <= config.total_tokens
          /\ config.total_tokens - total_tokens_seen' >= 0]_vars

\* the first tick of the second epoch: tokens_seen started again from 0 and
\* total_tokens_seen went on
C29_Witness ==
    /\ sim = "llm"
    /\ pc = "status"
    /\ epoch = 1
    /\ tokens_seen = config.tokens_per_step
    /\ total_tokens_seen =
          (config.steps_per_epoch + 1) * config.tokens_per_step

\* C30: a terminal summary has been printed only in a run that was
\* cancelled and has exited through its except branch; a training run that
\* has exhausted its epochs has printed none.
C30_SummaryOnlyWhenInterrupted ==
    /\ summaries > 0 => (signalled /\ pc = "interrupted")
    /\ (Training /\ pc = "terminated") => (summaries = 0 /\ ~signalled)

\* the segmentation run has exhausted its epochs
C30_Witness ==
    /\ sim = "seg"
    /\ pc = "terminated"
    /\ epoch = config.max_epochs - 1
    /\ summaries = 0

(***************************************************************************)
(* TickSpec: the loop of MarketSimulator.run statement by statement, with  *)
(* generate_market_metrics and generate_indicators applied to the          *)
(* parameters they declare, and with the time the sleeps take.  The clock  *)
(* counts half seconds; the statements themselves take no time.  The       *)
(* cycles are drawn freely in the first ticks and at their midpoint 0      *)
(* afterwards.                                                             *)
(***************************************************************************)
\* seconds of elapsed time the loop is followed for
MaxSeconds == 32

\* ticks whose cycles are drawn at their extremes too
MoveTicks == 2

\* the four cycles together at an extreme or at 0, the Gaussian terms at 0
CycleDraws ==
    { [gauss |-> 0, long |-> 200 * c, medium |-> 150 * c, short |-> 100 * c,
       micro |-> 50 * c, volume |-> 0] : c \in CycleLevels }

TickDraws(t) ==
    IF t < MoveTicks THEN CycleDraws ELSE {d \in CycleDraws : d.long = 0}

\* one draw of the indicators' noise
TickIndicatorDraws ==
    {d \in IndicatorDraws :
        /\ d.rsi = 0 /\ d.macd = 2000 /\ d.obv = 120
        /\ d.funding = 0 /\ d.cvd = 30 /\ d.oi = 160}

\* the draws of an event: each template, its last message, the delay at
\* either end of its range
TickEventDraws ==
    {d \in EventDraws :
        /\ d.r \in {0, 49, 99} /\ d.message = 8
        /\ ~d.detail /\ ~d.impact}

\* values of random.random(), percent, on both sides of the event's chance
TickChanceDraws ==
    {r \in RandomDraws(EventChance("market")) :
        r + 1 >= EventChance("market") /\ r <= EventChance("market")}

\* the fetch fails (the built-in record) or returns the sample whose high
\* and low are both at the price
TickResponses ==
    {r \in DriftResponses :
        r.kind = "json" => r.figures.ath = r.figures.atl}

\* the gates of the eight market insights: none, one, two or all passing
TickGateDraws ==
    {g \in GateDraws(InsightChances("market")) :
        Passed(InsightChances("market"), g)
            \in {{}, {1}, {8}, {3, 6}, {2, 5, 8}, 1..8}}

\* int(elapsed)
Seconds(halves) == halves \div 2

\* `if int(elapsed) % 30 == 0:`
DetailDue(halves) == Seconds(halves) % 30 = 0

\* the locals and fields of the training runs
trainLocals ==
    <<epoch, step, tokens_seen, bound, summaries, metrics, best_metric,
      config, checkpoints, last_progress, total_tokens_seen>>

TickInit ==
    /\ sim = "market"
    /\ pc = "elapsed"
    /\ raised = "none"
    /\ signalled = FALSE
    /\ response \in TickResponses
    /\ MarketLocals(get_market_data(response))
    /\ indicators = NoIndicators
    /\ event = NoEvent
    /\ TrainIdle
    /\ config = NoConfig

\* line 93: elapsed = time.time() - start_time
TakeElapsed ==
    /\ pc = "elapsed"
    /\ clock <= 2 * MaxSeconds
    /\ Abs(current_price) <= PriceCap
    /\ elapsed' = clock
    /\ pc' = "move"
    /\ UNCHANGED <<sim, raised, signalled, response, market_data, indicators,
                   event, draw, advances, renders, clock, details, insights>>
    /\ UNCHANGED marketVars
    /\ UNCHANGED trainLocals

\* lines 97-101: the call of generate_market_metrics and the updates of
\* price and volume
MovePrice ==
    /\ pc = "move"
    /\ IF MetricsRaises(current_price, market_data)
       THEN /\ Crash("ZeroDivisionError")
            /\ UNCHANGED <<price_change, current_price, current_volume,
                           advances>>
       ELSE \E d \in TickDraws(ticks) :
              LET m == generate_market_metrics(
                           d, BaseVolatility(market_data), current_price,
                           market_data)
              IN  /\ Abs(m[1]) <= RateCap
                  /\ price_change' = m[1]
                  /\ current_price' = Scaled(current_price, m[1])
                  /\ current_volume' = Scaled(current_volume, m[2])
                  /\ advances' = advances + 1
                  /\ pc' = "high"
                  /\ UNCHANGED raised
    /\ UNCHANGED <<sim, signalled, response, market_data, indicators, event,
                   initial_price, high_price, low_price, ticks, draw,
                   renders, clock, elapsed, details, insights>>
    /\ UNCHANGED trainLocals

\* line 103: high_price = max(high_price, current_price)
UpdateHigh ==
    /\ pc = "high"
    /\ high_price' = NextHigh(high_price, current_price)
    /\ pc' = "low"
    /\ UNCHANGED <<sim, raised, signalled, response, market_data, indicators,
                   event, initial_price, current_price, current_volume,
                   low_price, price_change, ticks, draw, advances, renders,
                   clock, elapsed, details, insights>>
    /\ UNCHANGED trainLocals

\* line 104: low_price = min(low_price, current_price)
UpdateLow ==
    /\ pc = "low"
    /\ low_price' = NextLow(low_price, current_price)
    /\ pc' = "event"
    /\ UNCHANGED <<sim, raised, signalled, response, market_data, indicators,
                   event, initial_price, current_price, current_volume,
                   high_price, price_change, ticks, draw, advances, renders,
                   clock, elapsed, details, insights>>
    /\ UNCHANGED trainLocals

\* lines 107-111: `if random.random() < 0.05:` with the call of
\* simulate_market_event and the print of the event
MaybeEvent ==
    /\ pc = "event"
    /\ \E r \in TickChanceDraws :
         /\ draw' = r
         /\ IF Fires(r, EventChance(sim))
            THEN /\ \E d \in TickEventDraws :
                      event' = simulate_market_event(d, current_price,
                                                     market_data)
                 /\ pc' = "event_sleep"
            ELSE /\ event' = NoEvent
                 /\ pc' = "indicators"
    /\ UNCHANGED <<sim, raised, signalled, response, market_data, indicators,
                   advances, renders, clock, elapsed, details, insights>>
    /\ UNCHANGED marketVars
    /\ UNCHANGED trainLocals

\* line 112: time.sleep(delay)
EventSleep ==
    /\ pc = "event_sleep"
    /\ clock' = clock + 2 * event.delay
    /\ pc' = "indicators"
    /\ UNCHANGED <<sim, raised, signalled, response, market_data, indicators,
                   event, draw, advances, renders, elapsed, details, insights>>
    /\ UNCHANGED marketVars
    /\ UNCHANGED trainLocals

\* lines 115-120: the indicators, their bars and the status line
ShowStatus ==
    /\ pc = "indicators"
    /\ IF IndicatorsRaise(market_data)
       THEN /\ Crash("ZeroDivisionError")
            /\ UNCHANGED <<indicators, renders>>
       ELSE \E d \in TickIndicatorDraws :
              LET ind == generate_indicators(d, current_volume, market_data)
              IN  IF FormatRaises(ind)
                  THEN /\ Crash("ZeroDivisionError")
                       /\ UNCHANGED <<indicators, renders>>
                  ELSE /\ indicators' = ind
                       /\ renders' = renders + 1
                       /\ pc' = "detail"
                       /\ UNCHANGED raised
    /\ event' = NoEvent
    /\ draw' = -1
    /\ UNCHANGED <<sim, signalled, response, market_data, advances, clock,
                   elapsed, details, insights>>
    /\ UNCHANGED marketVars
    /\ UNCHANGED trainLocals

\* lines 123-124: the detailed metrics and their insights, each printed
\* insight followed by time.sleep(0.5)
MaybeDetail ==
    /\ pc = "detail"
    /\ IF DetailDue(elapsed)
       THEN /\ details' = Append(details, Seconds(elapsed))
            /\ \E gates \in TickGateDraws :
                  insights' = print_insights(InsightChances(sim), gates)
            /\ clock' = clock + Len(insights'.selected)
       ELSE UNCHANGED <<details, insights, clock>>
    /\ pc' = "pace"
    /\ UNCHANGED <<sim, raised, signalled, response, market_data, indicators,
                   event, draw, advances, renders, elapsed>>
    /\ UNCHANGED marketVars
    /\ UNCHANGED trainLocals

\* line 126: time.sleep(1)
TickSleep ==
    /\ pc = "pace"
    /\ clock' = clock + 2
    /\ ticks' = ticks + 1
    /\ insights' = NoInsights
    /\ pc' = "elapsed"
    /\ UNCHANGED <<sim, raised, signalled, response, market_data, indicators,
                   event, draw, advances, renders, elapsed, details>>
    /\ UNCHANGED priceVars
    /\ UNCHANGED trainLocals

TickNext ==
    \/ TakeElapsed
    \/ MovePrice
    \/ UpdateHigh
    \/ UpdateLow
    \/ MaybeEvent
    \/ EventSleep
    \/ ShowStatus
    \/ MaybeDetail
    \/ TickSleep
    \/ Interrupt
    \/ Handler

TickSpec == TickInit /\ [][TickNext]_vars

\* C21: an event emitted while the current price is above 0.95 * ath has
\* ALERT as its heaviest template, and one emitted while the current price
\* is below 1.2 * atl (and not above 0.95 * ath, the test the code makes
\* first) has INFO as its heaviest template.
C21_WeightsFollowCurrentPrice ==
    (sim = "market" /\ event # NoEvent) =>
        /\ current_price * 100 > market_data.ath * 95 =>
              /\ event.weights[1] > event.weights[2]
              /\ event.weights[1] > event.weights[3]
        /\ (/\ current_price * 10 < market_data.atl * 12
            /\ ~(current_price * 100 > market_data.ath * 95)) =>
              /\ event.weights[3] > event.weights[1]
              /\ event.weights[3] > event.weights[2]

\* the values of int(elapsed) at or below the loop's elapsed time that are
\* multiples of 30
Boundaries(halves) == {b \in 0..Seconds(halves) : b % 30 = 0}

\* C24: once a tick has taken its decision on the detailed summary, the
\* summary has been printed exactly once for every 30-second boundary up to
\* the tick's elapsed time.
C24_DetailAtEveryBoundary ==
    (sim = "market" /\ pc = "pace") =>
        /\ \A b \in Boundaries(elapsed) :
              \E k \in 1..Len(details) : details[k] = b
        /\ \A j, k \in 1..Len(details) : details[j] = details[k] => j = k

====
